---- MODULE Spec2Model ----
(***************************************************************************)
(* A model of pgdb: the Database handle (database.py) and the Table handle *)
(* (table.py) over a PostgreSQL catalog.                                   *)
(*                                                                         *)
(* Python strings are tuples of one-character strings, so that strip,      *)
(* split, slicing and lower-casing are computed and never assumed.         *)
(* Python's None is the one-element tuple None, which no string equals,    *)
(* and the record NoneObj where an object is expected.                     *)
(***************************************************************************)
EXTENDS Integers, Sequences, FiniteSets, TLC

VARIABLES
    db_schema,   \* Database.schema: the default schema given to connect()
    db_schemas,  \* the schemas that exist in the database
    db_tables,   \* the tables that exist: <<schema, table>> -> structure
    handle,      \* the caller's variable: the Table it holds, or None
    last,        \* the last call: its arguments, outcome and statements
    ncalls       \* the parity of the number of calls made so far

vars == <<db_schema, db_schemas, db_tables, handle, last, ncalls>>

-----------------------------------------------------------------------------
(* Bounds of the model *)

\* the number of tables the database holds at most
MaxTables == 2

-----------------------------------------------------------------------------
(* Python values *)

None == <<"None">>

\* truth value of a string or None (`if x:`)
Truthy(x) == x # None /\ x # <<>>

\* the empty dict
EmptyDict == [k \in {} |-> [kind |-> "None"]]

public == <<"p", "u", "b", "l", "i", "c">>
other == <<"o", "t", "h", "e", "r">>
pg_catalog == <<"p", "g", "_", "c", "a", "t", "a", "l", "o", "g">>
t_ == <<"t">>
u_ == <<"u">>
id == <<"i", "d">>
name == <<"n", "a", "m", "e">>
Name == <<"N", "a", "m", "e">>
dot == <<".">>
x_ == <<"x">>
geom == <<"g", "e", "o", "m">>
idx_t_id == <<"i", "d", "x", "_", "t", "_", "i", "d">>

Range(s) == {s[i] : i \in DOMAIN s}

\* the injective lists over a finite set: the row orders a SELECT without
\* ORDER BY can return
Perms(S) ==
    {f \in [1..Cardinality(S) -> S] :
        \A i, j \in 1..Cardinality(S) : i # j => f[i] # f[j]}

\* str.lower on one character
LowerChar(c) ==
    CASE c = "N" -> "n"
      [] c = "I" -> "i"
      [] c = "T" -> "t"
      [] c = "U" -> "u"
      [] OTHER -> c

lower(s) == [i \in DOMAIN s |-> LowerChar(s[i])]

RECURSIVE lstrip(_)
lstrip(s) == IF s # <<>> /\ Head(s) = " " THEN lstrip(Tail(s)) ELSE s

RECURSIVE rstrip(_)
rstrip(s) ==
    IF s # <<>> /\ s[Len(s)] = " " THEN rstrip(SubSeq(s, 1, Len(s) - 1)) ELSE s

\* str.strip()
strip(s) == rstrip(lstrip(s))

\* str.split('.'): the list of the pieces between the separators
RECURSIVE split(_, _)
split(s, sep) ==
    IF \A i \in DOMAIN s : s[i] # sep
    THEN <<s>>
    ELSE LET i == CHOOSE k \in DOMAIN s :
                      s[k] = sep /\ \A j \in 1..(k - 1) : s[j] # sep
         IN  <<SubSeq(s, 1, i - 1)>> \o split(SubSeq(s, i + 1, Len(s)), sep)

\* "%s" % x and "{}".format(x)
Format(x) == IF x = None THEN <<"N", "o", "n", "e">> ELSE x

\* PostgreSQL folds an unquoted identifier to lower case
PgFold(ident) == lower(ident)

\* the outcome of a call or of a part of one: the exception raised ("None"
\* when it returned), the value returned, the statements sent to the
\* database in order, and the tables the database holds afterwards
Res(exc, ret, io, dbt) == [exc |-> exc, ret |-> ret, io |-> io, dbt |-> dbt]

Stmt(kind, schema, table) == [kind |-> kind, schema |-> schema, table |-> table]

\* the statements of `io` that change the database's structure
DDL(io) == SelectSeq(io, LAMBDA s : s.kind \notin {"SELECT", "REFLECT"})

\* None where an object (a Table, an Index) is expected
NoneObj == [kind |-> "None"]

-----------------------------------------------------------------------------
(* The catalog as the database answers it *)

\* the schema an unqualified name resolves to (search_path of a new database)
SearchPath == public

\* every schema name of the model, in the order ORDER BY schema_name gives
SchemaOrder == <<other, pg_catalog, public>>

TableKey(schema, table) == <<IF schema = None THEN SearchPath ELSE schema, table>>

\* Database.schemas
schemas(dbs) ==
    SelectSeq(SchemaOrder,
              LAMBDA s : s \in dbs /\ SubSeq(s, 1, 3) # <<"p", "g", "_">>)

\* Database.tables_in_schema: each list the query can return
tables_in_schema(dbt, schema) ==
    Perms({k[2] : k \in {k \in DOMAIN dbt : k[1] = schema}})

RECURSIVE qualified_tables(_, _)
qualified_tables(dbt, ss) ==
    IF ss = <<>>
    THEN {<<>>}
    ELSE {[i \in DOMAIN l |-> Head(ss) \o dot \o l[i]] \o rest :
            l \in tables_in_schema(dbt, Head(ss)),
            rest \in qualified_tables(dbt, Tail(ss))}

\* Database.tables: each list the property can evaluate to
tables(dbs, dbt, schema) ==
    IF Truthy(schema)
    THEN tables_in_schema(dbt, schema)
    ELSE qualified_tables(dbt, schemas(dbs))

\* the statements Database.tables sends
tables_io(dbs, schema) ==
    IF Truthy(schema)
    THEN <<Stmt("SELECT", schema, None)>>
    ELSE <<Stmt("SELECT", None, None)>>
         \o [i \in DOMAIN schemas(dbs) |-> Stmt("SELECT", schemas(dbs)[i], None)]

\* `x in l` for every list l the query can return (they hold the same rows)
In(x, lists) == \E l \in lists : x \in Range(l)

-----------------------------------------------------------------------------
(* table.py: construction *)

\* the attributes Table.__init__ assigns; a Table has no others
TableAttrs == {"db", "schema", "name", "metadata", "table", "indexes", "_is_dropped"}

ColumnNames(columns) == [i \in DOMAIN columns |-> columns[i].name]

PrimaryKeyOf(columns) ==
    ColumnNames(SelectSeq(columns, LAMBDA c : c.primary_key))

\* CREATE TABLE as the database executes it
CreateTableOk(dbs, dbt, schema, table) ==
    /\ TableKey(schema, table)[1] \in dbs
    /\ TableKey(schema, table) \notin DOMAIN dbt

\* Table.__init__(db, schema, table, columns); columns=None and columns=[]
\* take the same branch of `if columns:` and are both the empty list here
Table__init__(dbs, dbt, schema, table, columns) ==
    IF columns # <<>>
    THEN LET key == TableKey(schema, table)
             io == <<Stmt("CREATE TABLE", schema, table)>>
             def == [columns |-> ColumnNames(columns),
                     primary_key |-> PrimaryKeyOf(columns),
                     indexes |-> EmptyDict]
         IN  IF CreateTableOk(dbs, dbt, schema, table)
             THEN Res("None",
                      [kind |-> "Table", schema |-> schema, name |-> table,
                       table |-> [columns |-> def.columns,
                                  primary_key |-> def.primary_key],
                       indexes |-> EmptyDict, _is_dropped |-> FALSE],
                      io, [k \in DOMAIN dbt \cup {key} |->
                              IF k = key THEN def ELSE dbt[k]])
             ELSE Res("ProgrammingError", NoneObj, io, dbt)
    ELSE IF table = None
    THEN \* SQLATable(None, ..., schema="public"): schema + "." + None
         Res("TypeError", NoneObj, <<>>, dbt)
    ELSE LET key == TableKey(schema, table)
             io == <<Stmt("REFLECT", schema, table)>>
         IN  IF key \in DOMAIN dbt
             THEN Res("None",
                      [kind |-> "Table", schema |-> schema, name |-> table,
                       table |-> [columns |-> dbt[key].columns,
                                  primary_key |-> dbt[key].primary_key],
                       indexes |-> dbt[key].indexes, _is_dropped |-> FALSE],
                      io, dbt)
             ELSE Res("NoSuchTableError", NoneObj, io, dbt)

-----------------------------------------------------------------------------
(* database.py: names and table resolution *)

\* Database._valid_table_name
_valid_table_name(table) ==
    IF table = None \/ Len(strip(table)) = 0
    THEN Res("ValueError", None, <<>>, <<>>)
    ELSE Res("None", strip(table), <<>>, <<>>)

\* Database.parse_table_name
parse_table_name(table) ==
    IF table = None
    THEN Res("TypeError", None, <<>>, <<>>)
    ELSE IF \E i \in DOMAIN table : table[i] = "."
    THEN IF Len(split(table, ".")) = 2
         THEN Res("None", split(table, "."), <<>>, <<>>)
         ELSE Res("ValueError", None, <<>>, <<>>)
    ELSE Res("None", <<None, table>>, <<>>, <<>>)

\* a statement that raised ends the call; otherwise the call goes on with
\* what the statement returned
Try(r, dbt, K(_)) ==
    IF r.exc # "None" THEN Res(r.exc, NoneObj, <<>>, dbt) ELSE K(r.ret)

\* the outcome r of the rest of a call, after the statements `io`
WithIo(io, r) == Res(r.exc, r.ret, io \o r.io, r.dbt)

\* Database.load_table
load_table(dflt, dbs, dbt, table) ==
    Try(_valid_table_name(table), dbt, LAMBDA valid :
    Try(parse_table_name(valid), dbt, LAMBDA p :
        IF ~Truthy(p[1])
        THEN IF In(p[2], tables(dbs, dbt, dflt))
             THEN WithIo(tables_io(dbs, dflt),
                         Table__init__(dbs, dbt, dflt, p[2], <<>>))
             ELSE Res("None", NoneObj, tables_io(dbs, dflt), dbt)
        ELSE IF In(p[2], tables_in_schema(dbt, p[1]))
             THEN WithIo(<<Stmt("SELECT", p[1], None)>>,
                         Table__init__(dbs, dbt, p[1], p[2], <<>>))
             ELSE Res("None", NoneObj, <<Stmt("SELECT", p[1], None)>>, dbt)))

\* Database.__getitem__
__getitem__(dflt, dbs, dbt, table) ==
    IF In(table, tables(dbs, dbt, dflt))
    THEN WithIo(tables_io(dbs, dflt), load_table(dflt, dbs, dbt, table))
    ELSE WithIo(tables_io(dbs, dflt), Table__init__(dbs, dbt, public, None, <<>>))

\* Database.create_table
create_table(dflt, dbs, dbt, table, cols) ==
    Try(parse_table_name(table), dbt, LAMBDA p :
    Try(_valid_table_name(p[2]), dbt, LAMBDA valid :
        WithIo(tables_io(dbs, dflt),
               IF In(valid, tables(dbs, dbt, dflt))
               THEN Table__init__(dbs, dbt, IF ~Truthy(p[1]) THEN dflt ELSE p[1],
                                  valid, <<>>)
               ELSE Table__init__(dbs, dbt, IF ~Truthy(p[1]) THEN dflt ELSE p[1],
                                  valid, cols))))

-----------------------------------------------------------------------------
(* table.py: the methods of a Table; `self` is the handle's state *)

\* the outcome of a method: as Res, with the handle's state afterwards
MRes(exc, ret, io, dbt, self) ==
    [exc |-> exc, ret |-> ret, io |-> io, dbt |-> dbt, self |-> self]

\* pgdb.util.normalize_column_name
normalize_column_name(n) == lower(strip(n))

\* Table.columns
columns(self) == self.table.columns

\* Table._normalized_columns
_normalized_columns(self) ==
    [i \in DOMAIN columns(self) |-> normalize_column_name(columns(self)[i])]

\* Table.primary_key
primary_key(self) == self.table.primary_key

\* Table.op: MigrationContext.configure(self.engine)
op(self) == IF "engine" \in TableAttrs THEN "Operations" ELSE "AttributeError"

\* Table._update_table: a new SQLATable, neither autoloaded nor given columns
_update_table(self, table_name) == [columns |-> <<>>, primary_key |-> <<>>]

\* Table._check_dropped
_check_dropped(self) == IF self._is_dropped THEN "DatasetException" ELSE "None"

\* the table ALTER TABLE {s}.{t} names, its identifiers unquoted
UnquotedKey(self) == <<PgFold(Format(self.schema)), PgFold(Format(self.name))>>

\* add_primary_key without its `if not self.primary_key` guard
add_primary_key_unguarded(self, dbt, column) ==
    LET key == UnquotedKey(self)
        col == PgFold(Format(column))
        io == <<Stmt("ALTER TABLE ADD PRIMARY KEY", Format(self.schema),
                     Format(self.name))>>
    IN  IF /\ key \in DOMAIN dbt
           /\ col \in Range(dbt[key].columns)
           /\ dbt[key].primary_key = <<>>
        THEN MRes("None", NoneObj, io,
                  [dbt EXCEPT ![key].primary_key = <<col>>], self)
        ELSE MRes("ProgrammingError", NoneObj, io, dbt, self)

\* Table.add_primary_key
add_primary_key(self, dbt, column) ==
    IF primary_key(self) = <<>>
    THEN LET key == UnquotedKey(self)
             col == PgFold(Format(column))
             io == <<Stmt("ALTER TABLE ADD PRIMARY KEY", Format(self.schema),
                          Format(self.name))>>
         IN  IF /\ key \in DOMAIN dbt
                /\ col \in Range(dbt[key].columns)
                /\ dbt[key].primary_key = <<>>
             THEN MRes("None", NoneObj, io,
                       [dbt EXCEPT ![key].primary_key = <<col>>], self)
             ELSE MRes("ProgrammingError", NoneObj, io, dbt, self)
    ELSE MRes("None", NoneObj, <<>>, dbt, self)

\* drop with the failure of the statement caught and dropped
drop_swallowing(self, dbt, fails) ==
    LET key == TableKey(self.schema, self.name)
        io == <<Stmt("DROP TABLE", self.schema, self.name)>>
        dropped == [self EXCEPT !._is_dropped = TRUE]
    IN  IF key \in DOMAIN dbt /\ ~fails
        THEN MRes("None", NoneObj, io,
                  [k \in DOMAIN dbt \ {key} |-> dbt[k]], dropped)
        ELSE MRes("None", NoneObj, io, dbt, dropped)

\* drop that sets the flag to what it was not
drop_toggling(self, dbt, fails) ==
    LET key == TableKey(self.schema, self.name)
        io == <<Stmt("DROP TABLE", self.schema, self.name)>>
        dropped == [self EXCEPT !._is_dropped = ~self._is_dropped]
    IN  IF key \in DOMAIN dbt /\ ~fails
        THEN MRes("None", NoneObj, io,
                  [k \in DOMAIN dbt \ {key} |-> dbt[k]], dropped)
        ELSE MRes("ProgrammingError", NoneObj, io, dbt, dropped)

\* drop that sets the flag after the statement, when it did not raise
drop_flag_after(self, dbt, fails) ==
    LET key == TableKey(self.schema, self.name)
        io == <<Stmt("DROP TABLE", self.schema, self.name)>>
        dropped == [self EXCEPT !._is_dropped = TRUE]
    IN  IF key \in DOMAIN dbt /\ ~fails
        THEN MRes("None", NoneObj, io,
                  [k \in DOMAIN dbt \ {key} |-> dbt[k]], dropped)
        ELSE MRes("ProgrammingError", NoneObj, io, dbt, self)

\* Table.drop; `fails` is the database refusing the statement (a lock, a
\* dependent object, a lost connection)
drop(self, dbt, fails) ==
    LET key == TableKey(self.schema, self.name)
        io == <<Stmt("DROP TABLE", self.schema, self.name)>>
        dropped == [self EXCEPT !._is_dropped = TRUE]
    IN  IF key \in DOMAIN dbt /\ ~fails
        THEN MRes("None", NoneObj, io,
                  [k \in DOMAIN dbt \ {key} |-> dbt[k]], dropped)
        ELSE MRes("ProgrammingError", NoneObj, io, dbt, dropped)

\* Table.create_column
create_column(self, dbt, n) ==
    IF _check_dropped(self) # "None"
    THEN MRes(_check_dropped(self), NoneObj, <<>>, dbt, self)
    ELSE IF normalize_column_name(n) \notin Range(_normalized_columns(self))
    THEN IF op(self) = "AttributeError"
         THEN MRes("AttributeError", NoneObj, <<>>, dbt, self)
         ELSE LET key == TableKey(self.schema, self.name)
                  io == <<Stmt("ALTER TABLE ADD COLUMN", self.schema, self.name)>>
              IN  IF key \in DOMAIN dbt /\ n \notin Range(dbt[key].columns)
                  THEN MRes("None", NoneObj, io,
                            [dbt EXCEPT ![key].columns = Append(@, n)],
                            [self EXCEPT !.table = _update_table(self, self.name)])
                  ELSE MRes("ProgrammingError", NoneObj, io, dbt, self)
    ELSE MRes("None", NoneObj, <<>>, dbt, self)

\* Table.drop_column
drop_column(self, dbt, n) ==
    IF _check_dropped(self) # "None"
    THEN MRes(_check_dropped(self), NoneObj, <<>>, dbt, self)
    ELSE IF n \in Range(self.table.columns)
    THEN IF op(self) = "AttributeError"
         THEN MRes("AttributeError", NoneObj, <<>>, dbt, self)
         ELSE LET key == TableKey(None, self.name)
                  io == <<Stmt("ALTER TABLE DROP COLUMN", None, self.name)>>
              IN  IF key \in DOMAIN dbt /\ n \in Range(dbt[key].columns)
                  THEN MRes("None", NoneObj, io,
                            [dbt EXCEPT ![key].columns =
                                SelectSeq(@, LAMBDA c : c # n)],
                            [self EXCEPT !.table = _update_table(self, self.name)])
                  ELSE MRes("ProgrammingError", NoneObj, io, dbt, self)
    ELSE MRes("None", NoneObj, <<>>, dbt, self)

\* len(columns > 1), len(columns == 1): len() of the bool a comparison yields
LenOfComparison == "TypeError"

\* item assignment to a dict: d[k] = v
DictSet(d, k, v) == [x \in DOMAIN d \cup {k} |-> IF x = k THEN v ELSE d[x]]

\* create_index whose except clause leaves a descriptor in the cache
create_index_caching_descriptor(self, dbt, cols, n) ==
    IF _check_dropped(self) # "None"
    THEN MRes(_check_dropped(self), NoneObj, <<>>, dbt, self)
    ELSE IF ~Truthy(n)
    THEN MRes(LenOfComparison, NoneObj, <<>>, dbt, self)
    ELSE IF n \in DOMAIN self.indexes
    THEN MRes("None", self.indexes[n], <<>>, dbt, self)
    ELSE MRes("None", [kind |-> "Index", name |-> n, columns |-> cols], <<>>, dbt,
              [self EXCEPT !.indexes =
                  DictSet(self.indexes, n,
                          [kind |-> "Index", name |-> n, columns |-> cols])])

\* create_index without its try/except: the failure reaches the caller
create_index_propagating(self, dbt, cols, n) ==
    IF _check_dropped(self) # "None"
    THEN MRes(_check_dropped(self), NoneObj, <<>>, dbt, self)
    ELSE IF ~Truthy(n)
    THEN MRes(LenOfComparison, NoneObj, <<>>, dbt, self)
    ELSE IF n \in DOMAIN self.indexes
    THEN MRes("None", self.indexes[n], <<>>, dbt, self)
    ELSE IF \E i \in DOMAIN cols : cols[i] \notin Range(columns(self))
    THEN MRes("KeyError", NoneObj, <<>>, dbt, self)
    ELSE MRes("AttributeError", NoneObj, <<>>, dbt, self)

\* create_index without its `if name in self.indexes` lookup
create_index_retrying(self, dbt, cols, n) ==
    IF _check_dropped(self) # "None"
    THEN MRes(_check_dropped(self), NoneObj, <<>>, dbt, self)
    ELSE IF ~Truthy(n)
    THEN MRes(LenOfComparison, NoneObj, <<>>, dbt, self)
    ELSE MRes("None", NoneObj, <<>>, dbt,
              [self EXCEPT !.indexes = DictSet(self.indexes, n, NoneObj)])

\* Table.create_index
create_index(self, dbt, cols, n) ==
    IF _check_dropped(self) # "None"
    THEN MRes(_check_dropped(self), NoneObj, <<>>, dbt, self)
    ELSE IF ~Truthy(n)
    THEN MRes(LenOfComparison, NoneObj, <<>>, dbt, self)
    ELSE IF n \in DOMAIN self.indexes
    THEN MRes("None", self.indexes[n], <<>>, dbt, self)
    ELSE LET key == TableKey(self.schema, self.name)
             io == <<Stmt("CREATE INDEX", self.schema, self.name)>>
             idx == [kind |-> "Index", name |-> n, columns |-> cols]
             stored(v) == [self EXCEPT !.indexes = DictSet(self.indexes, n, v)]
         IN  IF \E i \in DOMAIN cols : cols[i] \notin Range(columns(self))
             THEN \* KeyError from self.table.c[c], caught
                  MRes("None", NoneObj, <<>>, dbt, stored(NoneObj))
             ELSE IF "database" \notin TableAttrs
             THEN \* AttributeError from self.database, caught
                  MRes("None", NoneObj, <<>>, dbt, stored(NoneObj))
             ELSE IF key \in DOMAIN dbt /\ n \notin DOMAIN dbt[key].indexes
             THEN MRes("None", idx, io,
                       [dbt EXCEPT ![key].indexes = DictSet(@, n, idx)],
                       stored(idx))
             ELSE MRes("None", NoneObj, io, dbt, stored(NoneObj))

\* Table.create_index_geom; `fails` is the database refusing the statement
\* (no GIST operator class for the column's type, a lock). The identifiers
\* are double-quoted, and "%s" of a None schema is the schema "None".
create_index_geom(self, dbt, column, fails) ==
    LET key == <<Format(self.schema), Format(self.name)>>
        n == <<"i", "d", "x", "_">> \o Format(self.name) \o <<"_">> \o Format(column)
        io == <<Stmt("CREATE INDEX", Format(self.schema), Format(self.name))>>
    IN  IF /\ key \in DOMAIN dbt
           /\ column \in Range(dbt[key].columns)
           /\ n \notin DOMAIN dbt[key].indexes
           /\ ~fails
        THEN MRes("None", NoneObj, io,
                  [dbt EXCEPT ![key].indexes =
                      DictSet(@, n, [kind |-> "Index", name |-> n,
                                     columns |-> <<column>>])],
                  self)
        ELSE MRes("ProgrammingError", NoneObj, io, dbt, self)

-----------------------------------------------------------------------------
(* database.py: create_schema, drop_schema *)

\* the outcome of a call that changes the schemas: as Res, with the schemas
\* the database holds afterwards
SRes(exc, io, dbs, dbt) ==
    [exc |-> exc, ret |-> NoneObj, io |-> io, dbs |-> dbs, dbt |-> dbt]

\* the statement Database.schemas sends
schemas_io == <<Stmt("SELECT", None, None)>>

\* CREATE SCHEMA as the database executes it: the name is new, and names
\* that begin with pg_ are reserved
CreateSchemaOk(dbs, schema) ==
    schema \notin dbs /\ SubSeq(schema, 1, 3) # <<"p", "g", "_">>

\* create_schema without its `if schema not in self.schemas`
create_schema_unconditional(dbs, dbt, schema) ==
    IF CreateSchemaOk(dbs, schema)
    THEN SRes("None", <<Stmt("CREATE SCHEMA", schema, None)>>, dbs \cup {schema}, dbt)
    ELSE SRes("ProgrammingError", <<Stmt("CREATE SCHEMA", schema, None)>>, dbs, dbt)

\* Database.create_schema
create_schema(dbs, dbt, schema) ==
    IF schema \notin Range(schemas(dbs))
    THEN IF CreateSchemaOk(dbs, schema)
         THEN SRes("None", schemas_io \o <<Stmt("CREATE SCHEMA", schema, None)>>,
                   dbs \cup {schema}, dbt)
         ELSE SRes("ProgrammingError",
                   schemas_io \o <<Stmt("CREATE SCHEMA", schema, None)>>, dbs, dbt)
    ELSE SRes("None", schemas_io, dbs, dbt)

\* DROP SCHEMA as the database executes it: without CASCADE a schema that
\* holds tables is not dropped
DropSchemaOk(dbs, dbt, schema, cascade) ==
    schema \in dbs /\ (cascade \/ \A k \in DOMAIN dbt : k[1] # schema)

\* Database.drop_schema
drop_schema(dbs, dbt, schema, cascade) ==
    IF schema \in Range(schemas(dbs))
    THEN LET io == schemas_io
                   \o <<Stmt(IF cascade THEN "DROP SCHEMA CASCADE" ELSE "DROP SCHEMA",
                             schema, None)>>
         IN  IF DropSchemaOk(dbs, dbt, schema, cascade)
             THEN SRes("None", io, dbs \ {schema},
                       [k \in {k \in DOMAIN dbt : k[1] # schema} |-> dbt[k]])
             ELSE SRes("InternalError", io, dbs, dbt)
    ELSE SRes("None", schemas_io, dbs, dbt)

-----------------------------------------------------------------------------
(* database.py: wipe_schema *)

\* a call made inside another: when it raised, so does the caller
AndThen(r, K(_)) ==
    IF r.exc # "None" THEN Res(r.exc, NoneObj, r.io, r.dbt) ELSE K(r)

\* the loop of Database.wipe_schema from the i-th table of the listing `ts`;
\* the database refuses the DROP TABLE of the failAt-th (0: of none)
RECURSIVE wipe_loop(_, _, _, _, _, _)
wipe_loop(dflt, dbs, dbt, ts, i, failAt) ==
    IF i > Len(ts)
    THEN Res("None", NoneObj, <<>>, dbt)
    ELSE AndThen(__getitem__(dflt, dbs, dbt, ts[i]), LAMBDA g :
             IF g.ret = NoneObj
             THEN \* None.drop()
                  Res("AttributeError", NoneObj, g.io, g.dbt)
             ELSE WithIo(g.io,
                  AndThen(drop(g.ret, g.dbt, i = failAt), LAMBDA d :
                      WithIo(d.io,
                             wipe_loop(dflt, dbs, d.dbt, ts, i + 1, failAt)))))

\* Database.wipe_schema, `ts` being the list self.tables evaluated to
wipe_schema(dflt, dbs, dbt, ts, failAt) ==
    WithIo(tables_io(dbs, dflt), wipe_loop(dflt, dbs, dbt, ts, 1, failAt))

-----------------------------------------------------------------------------
(* The inputs of the calls *)

\* the table references given to db[...], load_table and create_table
TableRefs == {t_, u_, other \o dot \o t_}

Col(n, pk) == [name |-> n, primary_key |-> pk]

\* the column definitions given to create_table
ColumnLists ==
    {<<Col(id, FALSE), Col(name, FALSE)>>,
     <<Col(id, TRUE), Col(name, FALSE)>>}

\* the column names given to create_column and drop_column
ColumnArgs == {id, Name, x_}

\* the column names given to add_primary_key
KeyArgs == {id, x_}

\* the arguments given to create_index
IndexArgs == {<<<<id, name>>, None>>, <<<<id, name>>, x_>>, <<<<x_>>, x_>>}

\* further arguments given to create_index: one column and no name, the
\* columns in the other order, the name create_index_geom gives its index
NamerArgs == {<<<<id>>, None>>, <<<<name, id>>, None>>, <<<<id>>, idx_t_id>>}

\* references that are not the name of one table: absent, empty, blank,
\* padded, with an empty or blank part, with two separators
NameRefs ==
    {None, <<>>, <<" ">>, <<" ", " ">>, <<" ">> \o t_ \o <<" ">>,
     other \o dot, other \o dot \o <<" ">>, dot \o t_, dot,
     other \o dot \o t_ \o dot \o u_}

\* the schema names given to create_schema and drop_schema
SchemaArgs == {public, other, pg_catalog}

\* the column names given to create_index_geom
GeomArgs == {id, geom}

-----------------------------------------------------------------------------
(* The state machine: one action per call *)

\* the record of a call: the Table it was made on or the variable's value
\* before it, and the call's outcome
Call(o, args, pre, r) ==
    [op |-> o, args |-> args, pre |-> pre,
     exc |-> r.exc, ret |-> r.ret, io |-> r.io]

Init ==
    /\ db_schema \in {None, public}
    /\ db_schemas = {public, other, pg_catalog}
    /\ db_tables = [k \in {} |-> NoneObj]
    /\ handle = NoneObj
    /\ last = Call("connect", <<>>, NoneObj, Res("None", NoneObj, <<>>, <<>>))
    /\ ncalls = 0

\* handle = db[ref], handle = db.load_table(ref), handle =
\* db.create_table(ref, cols): the variable is assigned when the call returns
Returned(o, args, r) ==
    /\ Cardinality(DOMAIN r.dbt) <= MaxTables
    /\ last' = Call(o, args, handle, r)
    /\ db_tables' = r.dbt
    /\ handle' = IF r.exc = "None" THEN r.ret ELSE handle
    /\ ncalls' = 1 - ncalls
    /\ UNCHANGED <<db_schema, db_schemas>>

GetItem(ref) ==
    /\ ref \in TableRefs \cup NameRefs
    /\ Returned("__getitem__", <<ref>>,
                __getitem__(db_schema, db_schemas, db_tables, ref))

LoadTable(ref) ==
    /\ ref \in TableRefs \cup NameRefs
    /\ Returned("load_table", <<ref>>,
                load_table(db_schema, db_schemas, db_tables, ref))

CreateTable(ref, cols) ==
    /\ ref \in TableRefs \cup NameRefs
    /\ Returned("create_table", <<ref, cols>>,
                create_table(db_schema, db_schemas, db_tables, ref, cols))

WipeSchema(ts, failAt) ==
    /\ ts \in tables(db_schemas, db_tables, db_schema)
    /\ failAt \in 0..Len(ts)
    /\ last' = Call("wipe_schema", <<ts, failAt>>, NoneObj,
                    wipe_schema(db_schema, db_schemas, db_tables, ts, failAt))
    /\ db_tables' = wipe_schema(db_schema, db_schemas, db_tables, ts, failAt).dbt
    /\ ncalls' = 1 - ncalls
    /\ UNCHANGED <<db_schema, db_schemas, handle>>

\* a method called on the Table the variable holds
Method(o, args, r) ==
    /\ handle # NoneObj
    /\ last' = Call(o, args, handle, r)
    /\ db_tables' = r.dbt
    /\ handle' = r.self
    /\ ncalls' = 1 - ncalls
    /\ UNCHANGED <<db_schema, db_schemas>>

AddPrimaryKey(c) ==
    /\ handle # NoneObj
    /\ Method("add_primary_key", <<c>>, add_primary_key(handle, db_tables, c))

Drop(fails) ==
    /\ handle # NoneObj
    /\ Method("drop", <<fails>>, drop(handle, db_tables, fails))

CreateColumn(c) ==
    /\ handle # NoneObj
    /\ Method("create_column", <<c>>, create_column(handle, db_tables, c))

DropColumn(c) ==
    /\ handle # NoneObj
    /\ Method("drop_column", <<c>>, drop_column(handle, db_tables, c))

CreateIndex(cols, n) ==
    /\ handle # NoneObj
    /\ Method("create_index", <<cols, n>>,
              create_index(handle, db_tables, cols, n))

CreateIndexGeom(c, fails) ==
    /\ handle # NoneObj
    /\ Method("create_index_geom", <<c, fails>>,
              create_index_geom(handle, db_tables, c, fails))

Next ==
    \/ \E ref \in TableRefs : GetItem(ref)
    \/ \E ref \in TableRefs : LoadTable(ref)
    \/ \E ref \in TableRefs, cols \in ColumnLists : CreateTable(ref, cols)
    \/ \E ts \in tables(db_schemas, db_tables, db_schema), failAt \in 0..MaxTables :
          WipeSchema(ts, failAt)
    \/ \E c \in KeyArgs : AddPrimaryKey(c)
    \/ \E fails \in BOOLEAN : Drop(fails)
    \/ \E c \in ColumnArgs : CreateColumn(c)
    \/ \E c \in ColumnArgs : DropColumn(c)
    \/ \E a \in IndexArgs : CreateIndex(a[1], a[2])

Spec == Init /\ [][Next]_vars

\* db._valid_table_name(ref)
ValidTableName(ref) ==
    /\ ref \in TableRefs \cup NameRefs
    /\ last' = Call("_valid_table_name", <<ref>>, NoneObj, _valid_table_name(ref))
    /\ ncalls' = 1 - ncalls
    /\ UNCHANGED <<db_schema, db_schemas, db_tables, handle>>

\* db.parse_table_name(ref)
ParseTableName(ref) ==
    /\ ref \in TableRefs \cup NameRefs
    /\ last' = Call("parse_table_name", <<ref>>, NoneObj, parse_table_name(ref))
    /\ ncalls' = 1 - ncalls
    /\ UNCHANGED <<db_schema, db_schemas, db_tables, handle>>

\* a call that changes the schemas
SchemaCall(o, args, r) ==
    /\ last' = Call(o, args, NoneObj, r)
    /\ db_schemas' = r.dbs
    /\ db_tables' = r.dbt
    /\ ncalls' = 1 - ncalls
    /\ UNCHANGED <<db_schema, handle>>

CreateSchema(n) ==
    /\ n \in SchemaArgs
    /\ SchemaCall("create_schema", <<n>>, create_schema(db_schemas, db_tables, n))

DropSchema(n, cascade) ==
    /\ n \in SchemaArgs
    /\ SchemaCall("drop_schema", <<n, cascade>>,
                  drop_schema(db_schemas, db_tables, n, cascade))

\* the schemas of a database and the tables created in them
NextSchemas ==
    \/ \E n \in SchemaArgs : CreateSchema(n)
    \/ \E n \in SchemaArgs, cascade \in BOOLEAN : DropSchema(n, cascade)
    \/ \E ref \in TableRefs, cols \in ColumnLists : CreateTable(ref, cols)

SpecSchemas == Init /\ [][NextSchemas]_vars

\* the names a caller can give: every reference to every call that takes one
NextNames ==
    \/ \E ref \in TableRefs \cup NameRefs : ValidTableName(ref)
    \/ \E ref \in TableRefs \cup NameRefs : ParseTableName(ref)
    \/ \E ref \in TableRefs \cup NameRefs : GetItem(ref)
    \/ \E ref \in TableRefs \cup NameRefs : LoadTable(ref)
    \/ \E ref \in TableRefs \cup NameRefs, cols \in ColumnLists :
          CreateTable(ref, cols)

SpecNames == Init /\ [][NextNames]_vars

\* one table and the handles on it: every method of Table, on handles that
\* create_table and load_table return
NextTable ==
    \/ \E cols \in ColumnLists : CreateTable(t_, cols)
    \/ LoadTable(t_)
    \/ \E c \in KeyArgs : AddPrimaryKey(c)
    \/ \E fails \in BOOLEAN : Drop(fails)
    \/ \E c \in ColumnArgs : CreateColumn(c)
    \/ \E c \in ColumnArgs : DropColumn(c)
    \/ \E a \in IndexArgs \cup NamerArgs : CreateIndex(a[1], a[2])
    \/ \E c \in GeomArgs, fails \in BOOLEAN : CreateIndexGeom(c, fails)

SpecTable == Init /\ [][NextTable]_vars

-----------------------------------------------------------------------------
(* Vocabulary of the properties *)

\* the methods of a Table that the calls of the model make
TableMethods ==
    {"add_primary_key", "drop", "create_column", "drop_column", "create_index"}

\* the handle state Ready: constructed and not dropped
Ready(h) == h # NoneObj /\ ~h._is_dropped

\* the statements of `io` of one kind
OfKind(io, kind) == SelectSeq(io, LAMBDA s : s.kind = kind)

\* the schema a reference resolves in: its own, otherwise the default
EffectiveSchema(ref) ==
    IF Truthy(parse_table_name(ref).ret[1])
    THEN parse_table_name(ref).ret[1]
    ELSE db_schema

\* the table a reference names in the database
RefKey(ref) == TableKey(EffectiveSchema(ref), parse_table_name(ref).ret[2])

\* the cached columns and index names are those the table has
InSync(h, dbt) ==
    /\ TableKey(h.schema, h.name) \in DOMAIN dbt
    /\ Range(columns(h)) = Range(dbt[TableKey(h.schema, h.name)].columns)
    /\ DOMAIN h.indexes = DOMAIN dbt[TableKey(h.schema, h.name)].indexes

-----------------------------------------------------------------------------
(* C1..C10 *)

\* C1: a call of create_column, drop_column, create_index, add_primary_key
\* or drop on a handle on which drop() was called before fails with the
\* table-dropped error and sends no statement to the database.
C1_DroppedRejectsEveryCall ==
    (last.op \in TableMethods /\ last.pre._is_dropped)
        => (last.exc = "DatasetException" /\ last.io = <<>>)

\* C2: create_column(name, type) called twice in a row with the same
\* arguments on a Ready handle, name not being a column yet, issues exactly
\* one add-column statement in total: both calls return, the second issues
\* none and leaves the cached columns as the first left them.
C2_CreateColumnTwice ==
    [][(/\ last.op = "create_column" /\ last'.op = "create_column"
        /\ last'.args = last.args
        /\ Ready(last.pre)
        /\ normalize_column_name(last.args[1])
               \notin Range(_normalized_columns(last.pre)))
       => (/\ last.exc = "None" /\ last'.exc = "None"
           /\ Len(OfKind(last.io, "ALTER TABLE ADD COLUMN")) = 1
           /\ DDL(last'.io) = <<>>
           /\ columns(handle') = columns(handle))]_vars

\* C3: a create_column, drop_column or create_index call that returns on a
\* Ready handle whose cached columns and indexes are those of the table
\* leaves them equal to the columns and indexes the table then has.
C3_CacheFollowsTable ==
    [][(/\ last'.op \in {"create_column", "drop_column", "create_index"}
        /\ last'.exc = "None"
        /\ Ready(handle)
        /\ InSync(handle, db_tables))
       => InSync(handle', db_tables')]_vars

\* the cached columns are those the table has, and the cached indexes that
\* hold a descriptor, not the failure sentinel, are those the table has
InSyncCreated(h, dbt) ==
    /\ TableKey(h.schema, h.name) \in DOMAIN dbt
    /\ Range(columns(h)) = Range(dbt[TableKey(h.schema, h.name)].columns)
    /\ {n \in DOMAIN h.indexes : h.indexes[n] # NoneObj}
           = DOMAIN dbt[TableKey(h.schema, h.name)].indexes

\* C3, amended: a create_column, drop_column or create_index call that
\* returns on a Ready handle leaves the cached columns equal to the table's
\* columns and the cached indexes that hold a descriptor equal to the
\* table's indexes; a failure sentinel cached under a name is no index.
C3_CacheFollowsTableButSentinels ==
    [][(/\ last'.op \in {"create_column", "drop_column", "create_index"}
        /\ last'.exc = "None"
        /\ Ready(handle)
        /\ InSyncCreated(handle, db_tables))
       => InSyncCreated(handle', db_tables')]_vars

\* C3 happens: create_index returned on a Ready handle in step with its
\* table and cached the failure sentinel under a new name
C3_Witness ==
    /\ last.op = "create_index" /\ last.exc = "None"
    /\ Ready(last.pre)
    /\ InSyncCreated(last.pre, db_tables)
    /\ x_ \notin DOMAIN last.pre.indexes
    /\ x_ \in DOMAIN handle.indexes
    /\ handle.indexes[x_] = NoneObj

\* C4: create_index(["id", "name"]) called twice with no name on a Ready
\* handle that has both columns and no index returns the same descriptor
\* both times and issues exactly one index-creation statement in total.
C4_CreateIndexTwice ==
    [][(/\ last.op = "create_index" /\ last'.op = "create_index"
        /\ last.args = <<<<id, name>>, None>> /\ last'.args = last.args
        /\ Ready(last.pre)
        /\ {id, name} \subseteq Range(columns(last.pre))
        /\ DOMAIN last.pre.indexes = {})
       => (/\ last.exc = "None" /\ last'.exc = "None"
           /\ last'.ret = last.ret
           /\ Len(DDL(last.io)) + Len(DDL(last'.io)) = 1)]_vars

\* C5: add_primary_key(c) that returns on a Ready handle whose primary_key
\* is empty has issued exactly one ALTER TABLE ... ADD PRIMARY KEY and
\* leaves primary_key = [c]; an add_primary_key that immediately follows
\* issues no statement.
C5_AddPrimaryKeyRefreshes ==
    [][/\ (/\ last'.op = "add_primary_key" /\ last'.exc = "None"
           /\ Ready(handle) /\ primary_key(handle) = <<>>)
          => (/\ Len(OfKind(last'.io, "ALTER TABLE ADD PRIMARY KEY")) = 1
              /\ Len(DDL(last'.io)) = 1
              /\ primary_key(handle') = <<last'.args[1]>>)
       /\ (/\ last.op = "add_primary_key" /\ last.exc = "None"
           /\ Ready(last.pre) /\ primary_key(last.pre) = <<>>
           /\ last'.op = "add_primary_key")
          => DDL(last'.io) = <<>>]_vars

\* C6: add_primary_key, whatever its column, on a Ready handle whose cached
\* primary_key is not empty returns without sending a statement and leaves
\* the handle (primary_key, columns, indexes) and the database as they were.
C6_AddPrimaryKeyNoOp ==
    [][(/\ last'.op = "add_primary_key"
        /\ Ready(handle) /\ primary_key(handle) # <<>>)
       => (/\ last'.exc = "None" /\ last'.io = <<>>
           /\ handle' = handle
           /\ db_tables' = db_tables)]_vars

\* C6 happens: add_primary_key was called with a column other than the key
\* on a Ready handle that caches a primary key.
C6_Witness ==
    /\ last.op = "add_primary_key"
    /\ Ready(last.pre) /\ primary_key(last.pre) = <<id>>
    /\ last.args = <<x_>>

\* C7: create_table(ref, columns) issues CREATE TABLE exactly when no table
\* of ref's name exists in the effective schema; when one exists it returns
\* a handle autoloaded from it and creates nothing.
C7_CreateTableIffAbsent ==
    [][(last'.op = "create_table")
       => LET ref == last'.args[1]
          IN  /\ (OfKind(last'.io, "CREATE TABLE") # <<>>)
                    <=> (RefKey(ref) \notin DOMAIN db_tables)
              /\ (RefKey(ref) \in DOMAIN db_tables)
                    => (/\ last'.exc = "None"
                        /\ db_tables' = db_tables
                        /\ last'.ret.kind = "Table"
                        /\ last'.ret.table.columns = db_tables[RefKey(ref)].columns)]_vars

\* C8: db[ref] returns a handle autoloaded from the table when the table
\* exists in the effective schema, and otherwise returns, without raising, a
\* placeholder handle whose schema is set and whose name is None.
C8_ResolveOrPlaceholder ==
    (last.op = "__getitem__")
        => LET ref == last.args[1]
           IN  /\ last.exc = "None"
               /\ last.ret.kind = "Table"
               /\ IF RefKey(ref) \in DOMAIN db_tables
                  THEN /\ TableKey(last.ret.schema, last.ret.name) = RefKey(ref)
                       /\ last.ret.table.columns = db_tables[RefKey(ref)].columns
                  ELSE /\ last.ret.name = None
                       /\ last.ret.schema # None

\* the tables wipe_schema had not reached when the failAt-th drop failed
NotDropped(ts, failAt) == {ts[i] : i \in failAt..Len(ts)}

\* C9: when the drop of the k-th table of a wipe_schema fails, the call
\* raises, and the listing of tables afterwards is what was listed minus the
\* k-1 tables dropped before it: they stay dropped, the others exist.
C9_PartialWipeIsReported ==
    (last.op = "wipe_schema" /\ last.args[2] >= 1)
        => /\ last.exc # "None"
           /\ \A l \in tables(db_schemas, db_tables, db_schema) :
                 Range(l) = NotDropped(last.args[1], last.args[2])

\* C9 happens: a wipe_schema over two tables whose second drop failed
C9_Witness ==
    /\ last.op = "wipe_schema"
    /\ Len(last.args[1]) = 2
    /\ last.args[2] = 2

\* C10: a wipe_schema that returns has dropped exactly the tables of the
\* default schema (the search path's when none is configured); the tables of
\* every other schema are untouched.
C10_WipeOnlyDefaultSchema ==
    [][(last'.op = "wipe_schema" /\ last'.exc = "None")
       => /\ \A k \in DOMAIN db_tables :
                k[1] # TableKey(db_schema, None)[1]
                    => (k \in DOMAIN db_tables' /\ db_tables'[k] = db_tables[k])
          /\ \A k \in DOMAIN db_tables' :
                k[1] # TableKey(db_schema, None)[1]]_vars

-----------------------------------------------------------------------------
(* C11..C20 *)

\* the index `n` of the handle's table does not exist in the database
NoSuchIndex(h, dbt, n) ==
    \/ TableKey(h.schema, h.name) \notin DOMAIN dbt
    \/ n \notin DOMAIN dbt[TableKey(h.schema, h.name)].indexes

\* C11: create_index on a Ready handle with a name that is not yet in
\* indexes never raises; when a column does not resolve or the index was
\* not created, it returns the failure sentinel and the sentinel is stored
\* in indexes under that name.
C11_IndexFailureIsCached ==
    [][(/\ last'.op = "create_index"
        /\ Ready(handle)
        /\ Truthy(last'.args[2])
        /\ last'.args[2] \notin DOMAIN handle.indexes)
       => /\ last'.exc = "None"
          /\ last'.args[2] \in DOMAIN handle'.indexes
          /\ handle'.indexes[last'.args[2]] = last'.ret
          /\ (\/ Range(last'.args[1]) \ Range(columns(handle)) # {}
              \/ NoSuchIndex(handle', db_tables', last'.args[2]))
                => last'.ret = NoneObj]_vars

\* C11 happens: create_index named a column the table does not have, on a
\* Ready handle that had nothing cached under the name
C11_Witness ==
    /\ last.op = "create_index"
    /\ Ready(last.pre)
    /\ last.args = <<<<x_>>, x_>>
    /\ x_ \notin DOMAIN last.pre.indexes
    /\ x_ \notin Range(columns(last.pre))

\* the keys of indexes of the form "ix_" + table + "_" + 16 characters
HashNames(h) ==
    {k \in DOMAIN h.indexes :
        /\ Len(k) = 3 + Len(h.name) + 1 + 16
        /\ SubSeq(k, 1, 3 + Len(h.name) + 1)
               = <<"i", "x", "_">> \o h.name \o <<"_">>}

\* C12: the name create_index resolves, as the key it reads and writes in
\* indexes, is the explicit name verbatim when one is given; column + "_idx"
\* for one column and no name; "ix_" + table + "_" + 16 hash characters for
\* several columns and no name, the same columns in another order resolving
\* to another name.
C12_ResolvedIndexName ==
    [][/\ (last'.op = "create_index" /\ Ready(handle))
          => LET cols == last'.args[1]
                 n == last'.args[2]
             IN  /\ Truthy(n) => n \in DOMAIN handle'.indexes
                 /\ (~Truthy(n) /\ Len(cols) = 1)
                       => /\ last'.exc = "None"
                          /\ cols[1] \o <<"_", "i", "d", "x">>
                                \in DOMAIN handle'.indexes
                 /\ (~Truthy(n) /\ Len(cols) > 1)
                       => /\ last'.exc = "None"
                          /\ HashNames(handle') # {}
       /\ (/\ last.op = "create_index" /\ last'.op = "create_index"
           /\ Ready(last.pre)
           /\ last.args = <<<<id, name>>, None>>
           /\ last'.args = <<<<name, id>>, None>>)
          => Cardinality(HashNames(handle')) >= 2]_vars

\* a string with nothing in it but whitespace
Blank(s) == Len(strip(s)) = 0

HasDot(s) == \E i \in DOMAIN s : s[i] = "."

\* the position of the first '.' of a string that has one
FirstDot(s) == CHOOSE i \in DOMAIN s : s[i] = "." /\ \A j \in 1..(i - 1) : s[j] # "."

BeforeDot(s) == SubSeq(s, 1, FirstDot(s) - 1)

AfterDot(s) == SubSeq(s, FirstDot(s) + 1, Len(s))

\* the table part of a reference: what follows its first '.', or all of it
TablePart(s) == IF HasDot(s) THEN AfterDot(s) ELSE s

\* C13: parse_table_name splits a reference on its first '.': s.t yields
\* (s, t) and a reference t without '.' yields (None, t); where a reference
\* is parsed and validated (load_table, create_table), an empty or blank
\* reference and one whose table part is empty are rejected with ValueError.
C13_ParseSplitsOnFirstDot ==
    /\ (/\ last.op = "parse_table_name"
        /\ last.args[1] # None
        /\ ~Blank(TablePart(last.args[1])))
       => /\ last.exc = "None"
          /\ last.ret = IF HasDot(last.args[1])
                        THEN <<BeforeDot(last.args[1]), AfterDot(last.args[1])>>
                        ELSE <<None, last.args[1]>>
    /\ (/\ last.op \in {"load_table", "create_table"}
        /\ last.args[1] # None
        /\ Blank(TablePart(last.args[1])))
       => last.exc = "ValueError"

AllTableMethods == TableMethods \cup {"create_index_geom"}

\* C15: the dropped flag of a handle is false when its construction
\* completes, no method but drop changes it, and no method sets it back to
\* false once it is true.
C15_DroppedFlagIsMonotonic ==
    [][/\ (/\ last'.op \in {"create_table", "load_table"}
           /\ last'.exc = "None"
           /\ last'.ret # NoneObj)
          => (handle' = last'.ret /\ ~handle'._is_dropped)
       /\ (last'.op \in AllTableMethods)
          => /\ handle._is_dropped => handle'._is_dropped
             /\ handle'._is_dropped # handle._is_dropped => last'.op = "drop"]_vars

\* C15 happens: drop was called on a handle whose flag was already set
C15_Witness ==
    /\ last.op = "drop"
    /\ last.pre._is_dropped
    /\ handle._is_dropped

\* C16: Dropped is terminal, for create_index_geom as for the methods of
\* C1: create_index_geom called on a dropped handle fails with the
\* table-dropped error and sends no CREATE INDEX statement.
C16_DroppedRejectsIndexGeom ==
    (last.op = "create_index_geom" /\ last.pre._is_dropped)
        => /\ last.exc = "DatasetException"
           /\ OfKind(last.io, "CREATE INDEX") = <<>>

\* C17: drop_column(name) on a Ready handle issues no DDL and leaves
\* columns, indexes and primary_key as they were when name is not, by exact
\* match, a cached column; when it is, the call issues one drop-column
\* statement and, when it returns, name is not among columns.
C17_DropColumnFrame ==
    [][(last'.op = "drop_column" /\ Ready(handle))
       => IF last'.args[1] \notin Range(columns(handle))
          THEN /\ DDL(last'.io) = <<>>
               /\ columns(handle') = columns(handle)
               /\ handle'.indexes = handle.indexes
               /\ primary_key(handle') = primary_key(handle)
          ELSE /\ Len(OfKind(last'.io, "ALTER TABLE DROP COLUMN")) = 1
               /\ Len(DDL(last'.io)) = 1
               /\ (last'.exc = "None")
                     => last'.args[1] \notin Range(columns(handle'))]_vars

\* C18: db[ref], load_table(ref) and create_table(ref, columns) reject an
\* absent, empty or blank ref with ValueError before any statement is sent
\* to the database.
C18_InvalidNameBeforeIo ==
    (/\ last.op \in {"__getitem__", "load_table", "create_table"}
     /\ (last.args[1] = None \/ Blank(last.args[1])))
        => (last.exc = "ValueError" /\ last.io = <<>>)

\* C19: create_index on a Ready handle with an explicit name that is a key
\* of indexes returns the value stored under the name, sends no statement
\* and leaves the handle and the database as they were, whether the value
\* is a descriptor or the failure sentinel.
C19_CachedIndexIsReturned ==
    [][(/\ last'.op = "create_index"
        /\ Ready(handle)
        /\ Truthy(last'.args[2])
        /\ last'.args[2] \in DOMAIN handle.indexes)
       => /\ last'.exc = "None"
          /\ last'.ret = handle.indexes[last'.args[2]]
          /\ last'.io = <<>>
          /\ handle' = handle
          /\ db_tables' = db_tables]_vars

\* C19 happens: create_index named a cached failure sentinel on a Ready
\* handle that also caches a descriptor loaded at construction
C19_Witness ==
    /\ last.op = "create_index"
    /\ Ready(last.pre)
    /\ last.args[2] = x_
    /\ x_ \in DOMAIN last.pre.indexes
    /\ last.pre.indexes[x_] = NoneObj
    /\ idx_t_id \in DOMAIN last.pre.indexes
    /\ last.pre.indexes[idx_t_id] # NoneObj

\* C20: after drop(), whether DROP TABLE succeeded or raised, the handle is
\* dropped: a create_column, drop_column or create_index that follows
\* fails with the table-dropped error and sends nothing.
C20_FailedDropStillDrops ==
    [][/\ (last'.op = "drop") => handle'._is_dropped
       /\ (/\ last.op = "drop"
           /\ last'.op \in {"create_column", "drop_column", "create_index"})
          => (last'.exc = "DatasetException" /\ last'.io = <<>>)]_vars

\* C20 happens: the DROP TABLE of a Ready handle raised, then a call of
\* create_column was made on the handle
C20_Witness ==
    /\ last.op = "create_column"
    /\ last.pre._is_dropped
    /\ TableKey(last.pre.schema, last.pre.name) \in DOMAIN db_tables

====
